---- MODULE Spec2Model ----
(***************************************************************************)
(* A model of niri's xdg-shell handlers (src/handlers/xdg_shell.rs): the   *)
(* window-rule resolver, the toplevel lifecycle (unmapped set / layout),   *)
(* fullscreen and decoration requests, the popup commit handler and the    *)
(* popup grab arbiter.                                                     *)
(*                                                                         *)
(* Rust's Option<T> is a sequence of length at most one: <<>> is None and  *)
(* <<x>> is Some(x).                                                       *)
(***************************************************************************)
EXTENDS Integers, Sequences, FiniteSets, TLC

None == <<>>
Some(x) == <<x>>

(***************************************************************************)
(* Bounds of the model.                                                    *)
(***************************************************************************)
\* longest window-rule list explored by the rule-resolver specification
MaxRules == 2
\* the serials a client may put in a popup grab request are 1..MaxSerial
MaxSerial == 2

(***************************************************************************)
(* The universe the model draws from.                                      *)
(***************************************************************************)
\* the wl_surface whose xdg_toplevel role the handlers are followed on (the role
\* may be destroyed and created again)
Surfaces == {"s1"}
\* outputs known to the compositor, and the names a rule may use
Outputs == {"o1", "o2"}
OutputNames == {"o1", "o2", "o3"}

\* a regular expression is modelled by the set of strings it matches
AppIds == {"a", "b"}
Titles == {"t", "u"}
ReA == {"a"}
ReT == {"t"}

\* niri_config::PresetWidth values a default-column-width list may hold
PresetWidths == {[preset |-> "Proportion", value |-> 1], [preset |-> "Fixed", value |-> 2]}

\* zxdg_toplevel_decoration_v1::Mode
Modes == {"ClientSide", "ServerSide"}

VARIABLES
    \* ---- toplevel lifecycle ----
    unmapped_windows,   \* niri.unmapped_windows: the keys of the map
    layout_windows,     \* layout engine: surface -> Option<[output, fullscreen]>
    toplevel,           \* per surface: the xdg_toplevel role data
    redraw_queued,      \* outputs with a queued redraw
    config,             \* niri.config: window_rules and prefer_no_csd
    monitors,           \* outputs that have a monitor in the layout
    active_output,      \* layout.active_output(): Option<output>
    output_by_name,     \* niri.output_by_name: name -> Option<output>
    \* ---- popups ----
    popups,             \* per popup surface: tracked kind and configure bookkeeping
    \* ---- popup grab arbiter ----
    ime_keyboard_grabbed,  \* seat.input_method().keyboard_grabbed()
    locked,                \* niri.is_locked()
    lock_focus,            \* niri.lock_surface_focus(): Option<surface>
    screenshot_open,       \* niri.screenshot_ui.is_open()
    layer_of_root,         \* layer map of the active output: root -> Option<layer>
    overlay_focusable,     \* some Overlay layer surface can receive keyboard focus
    top_focusable,         \* some Top layer surface can receive keyboard focus
    render_above_top,      \* active monitor's render_above_top_layer()
    layout_focus,          \* layout.focus(): Option<surface>
    keyboard_focus,        \* the seat's keyboard focus: Option<surface>
    keyboard_grab,         \* the seat's keyboard grab: Option<[session, serial]>
    pointer_grab,          \* the seat's pointer grab: Option<[session, serial]>
    popup_grab,            \* niri.popup_grab: Option<[root, grab]>
    \* ---- observation ----
    deco_request,       \* per surface: the mode of the latest request_mode not yet superseded
    owed,               \* surfaces with a decoration request whose configure is deferred
    last,               \* the last handler call: its inputs and what it emitted
    panicked            \* the process aborted in a handler (panic)

toplevel_vars == <<unmapped_windows, layout_windows, toplevel, redraw_queued>>
topology_vars == <<config, monitors, active_output, output_by_name>>
focus_vars == <<ime_keyboard_grabbed, locked, lock_focus, screenshot_open, layer_of_root,
                overlay_focusable, top_focusable, render_above_top, layout_focus>>
seat_vars == <<keyboard_focus, keyboard_grab, pointer_grab, popup_grab>>
history_vars == <<deco_request, owed>>

vars == <<toplevel_vars, topology_vars, popups, focus_vars, seat_vars, history_vars,
          last, panicked>>

(***************************************************************************)
(* Window rules.                                                           *)
(***************************************************************************)

\* regex::Regex::is_match: the pattern is the set of strings it matches
is_match(re, str) == str \in re

\* fn window_matches(role, m)
window_matches(role, m) ==
    /\ (m.app_id # None =>
            /\ role.app_id # None
            /\ is_match(m.app_id[1], role.app_id[1]))
    /\ (m.title # None =>
            /\ role.title # None
            /\ is_match(m.title[1], role.title[1]))

\* ColumnWidth::from(PresetWidth)
ColumnWidthFrom(p) == [width |-> p.preset, value |-> p.value]

\* rule.default_column_width.as_ref().map(|d| d.0.first().copied().map(ColumnWidth::from))
rule_default_width(rule) ==
    IF rule.default_column_width = None THEN None
    ELSE LET d == rule.default_column_width[1]
         IN  Some(IF Len(d) = 0 THEN None ELSE Some(ColumnWidthFrom(d[1])))

\* the `continue` conditions of the loop over the rules
rule_is_skipped(rule, role) ==
    \/ ~(\/ Len(rule.matches) = 0
         \/ \E k \in 1..Len(rule.matches) : window_matches(role, rule.matches[k]))
    \/ \E k \in 1..Len(rule.excludes) : window_matches(role, rule.excludes[k])

\* a plausible bug: the last applicable rule replaces the whole resolved record
apply_rule_whole_record(resolved, rule, role) ==
    IF rule_is_skipped(rule, role) THEN resolved
    ELSE [default_width |-> rule_default_width(rule),
          open_on_output |-> rule.open_on_output]

\* one iteration of the loop body of resolve_window_rules
apply_rule(resolved, rule, role) ==
    IF rule_is_skipped(rule, role) THEN resolved
    ELSE [default_width |->
              IF rule_default_width(rule) # None THEN rule_default_width(rule)
              ELSE resolved.default_width,
          open_on_output |->
              IF rule.open_on_output # None THEN rule.open_on_output
              ELSE resolved.open_on_output]

\* ResolvedWindowRule::default()
ResolvedDefault == [default_width |-> None, open_on_output |-> None]

RECURSIVE resolve_from(_, _, _, _)
resolve_from(rules, role, i, resolved) ==
    IF i > Len(rules) THEN resolved
    ELSE resolve_from(rules, role, i + 1, apply_rule(resolved, rules[i], role))

\* pub fn resolve_window_rules(rules, toplevel)
resolve_window_rules(rules, role) == resolve_from(rules, role, 1, ResolvedDefault)

(***************************************************************************)
(* Toplevel role data and the collaborators' interface.                    *)
(***************************************************************************)

NoRole == [app_id |-> None, title |-> None]

\* XdgToplevelSurfaceRoleAttributes a client gives its toplevels
ToplevelRoles == {NoRole, [app_id |-> Some("a"), title |-> None]}

\* the pending ToplevelState of a new xdg_toplevel
PendingDefault ==
    [size |-> None, fullscreen |-> FALSE, tiled |-> FALSE, decoration_mode |-> None]

\* the role data smithay creates with the xdg_toplevel object
fresh_toplevel(role) ==
    [alive |-> TRUE, role |-> role, initial_configure_sent |-> FALSE,
     pending |-> PendingDefault]

\* no xdg_toplevel object exists for the surface
DeadToplevel ==
    [alive |-> FALSE, role |-> NoRole, initial_configure_sent |-> FALSE,
     pending |-> PendingDefault]

\* pub fn initial_configure_sent(toplevel)
initial_configure_sent(s) == toplevel[s].initial_configure_sent

\* layout.find_window_and_output(surface)
find_window_and_output(s) == layout_windows[s]

\* layout.active_workspace(): a workspace is named by the output of its monitor
active_workspace == active_output

\* Workspace::view_size()
view_size(ws) == [workspace |-> ws, policy |-> "view", width |-> None]

\* Workspace::new_window_size(default_width)
new_window_size(ws, width) == [workspace |-> ws, policy |-> "new_window", width |-> width]

\* rules.open_on_output.and_then(|name| self.niri.output_by_name.get(name))
rule_output(rules) ==
    IF rules.open_on_output = None THEN None
    ELSE output_by_name[rules.open_on_output[1]]

\* layout.monitor_for_output(o) is None: the .unwrap() on it panics
rule_monitor_missing(rules) ==
    /\ rule_output(rules) # None
    /\ rule_output(rules)[1] \notin monitors

\* mon.map(|mon| mon.active_workspace_ref()).or_else(|| layout.active_workspace())
target_workspace(rules) ==
    IF rule_output(rules) # None THEN rule_output(rules) ELSE active_workspace

\* what a handler call is remembered by: its name, its surface, its other
\* inputs and effects, and the configures it emitted (each the pending state sent)
Call(op, s, args, configures) ==
    [op |-> op, surface |-> s, args |-> args, configures |-> configures]

NoArgs == <<>>

(***************************************************************************)
(* XdgShellHandler: toplevels.                                             *)
(***************************************************************************)

\* fn new_toplevel(&mut self, surface): the role data is fresh, the surface is
\* inserted into unmapped_windows, and the insert must not find an entry
new_toplevel(s, role) ==
    /\ toplevel' = [toplevel EXCEPT ![s] = fresh_toplevel(role)]
    /\ IF s \in unmapped_windows
       THEN /\ panicked' = Some("new_toplevel")
            /\ UNCHANGED unmapped_windows
       ELSE /\ unmapped_windows' = unmapped_windows \cup {s}
            /\ UNCHANGED panicked
    /\ deco_request' = [deco_request EXCEPT ![s] = None]
    /\ owed' = owed \ {s}
    /\ last' = Call("new_toplevel", s, NoArgs, <<>>)
    /\ UNCHANGED <<layout_windows, redraw_queued, topology_vars, popups, focus_vars,
                   seat_vars>>

\* The commit that maps a window: the entry leaves unmapped_windows and the
\* layout engine takes the window, on one of its monitors.  A client attaches
\* its first buffer only after the initial configure.
map_window(s, o) ==
    /\ s \in unmapped_windows
    /\ initial_configure_sent(s)
    /\ o \in monitors
    /\ unmapped_windows' = unmapped_windows \ {s}
    /\ layout_windows' = [layout_windows EXCEPT
            ![s] = Some([output |-> o, fullscreen |-> toplevel[s].pending.fullscreen])]
    /\ last' = Call("map_window", s, NoArgs, <<>>)
    /\ UNCHANGED <<toplevel, redraw_queued, topology_vars, popups, focus_vars, seat_vars,
                   history_vars, panicked>>

\* the pending state send_initial_configure_if_needed leaves before it sends
initial_pending(s) ==
    LET rules == resolve_window_rules(config.window_rules, toplevel[s].role)
        ws == target_workspace(rules)
        sized == IF ws # None
                 THEN [toplevel[s].pending EXCEPT
                          !.size = Some(new_window_size(ws[1], rules.default_width))]
                 ELSE toplevel[s].pending
    IN  IF config.prefer_no_csd THEN [sized EXCEPT !.tiled = TRUE] ELSE sized

\* a plausible bug: the initial configure is sent again on every call
send_initial_configure_unguarded(s) ==
    LET rules == resolve_window_rules(config.window_rules, toplevel[s].role)
    IN  /\ IF rule_monitor_missing(rules)
           THEN /\ panicked' = Some("send_initial_configure_if_needed")
                /\ last' = Call("send_initial_configure_if_needed", s, NoArgs, <<>>)
                /\ UNCHANGED <<toplevel, owed>>
           ELSE /\ toplevel' = [toplevel EXCEPT
                       ![s].pending = initial_pending(s),
                       ![s].initial_configure_sent = TRUE]
                /\ owed' = owed \ {s}
                /\ last' = Call("send_initial_configure_if_needed", s, NoArgs,
                                <<initial_pending(s)>>)
                /\ UNCHANGED panicked
        /\ UNCHANGED <<unmapped_windows, layout_windows, redraw_queued, topology_vars,
                       popups, focus_vars, seat_vars, deco_request>>

\* pub fn send_initial_configure_if_needed(&mut self, window)
send_initial_configure_if_needed(s) ==
    LET rules == resolve_window_rules(config.window_rules, toplevel[s].role)
    IN  /\ IF initial_configure_sent(s)
           THEN /\ last' = Call("send_initial_configure_if_needed", s, NoArgs, <<>>)
                /\ UNCHANGED <<toplevel, owed, panicked>>
           ELSE IF rule_monitor_missing(rules)
           THEN /\ panicked' = Some("send_initial_configure_if_needed")
                /\ last' = Call("send_initial_configure_if_needed", s, NoArgs, <<>>)
                /\ UNCHANGED <<toplevel, owed>>
           ELSE /\ toplevel' = [toplevel EXCEPT
                       ![s].pending = initial_pending(s),
                       ![s].initial_configure_sent = TRUE]
                /\ owed' = owed \ {s}
                /\ last' = Call("send_initial_configure_if_needed", s, NoArgs,
                                <<initial_pending(s)>>)
                /\ UNCHANGED panicked
        /\ UNCHANGED <<unmapped_windows, layout_windows, redraw_queued, topology_vars,
                       popups, focus_vars, seat_vars, deco_request>>

\* fn maximize_request(&mut self, surface)
maximize_request(s) ==
    /\ toplevel' = [toplevel EXCEPT ![s].initial_configure_sent = TRUE]
    /\ owed' = owed \ {s}
    /\ last' = Call("maximize_request", s, NoArgs, <<toplevel[s].pending>>)
    /\ UNCHANGED <<unmapped_windows, layout_windows, redraw_queued, topology_vars, popups,
                   focus_vars, seat_vars, deco_request, panicked>>

\* fn unmaximize_request(&mut self, _surface)
unmaximize_request(s) ==
    /\ last' = Call("unmaximize_request", s, NoArgs, <<>>)
    /\ UNCHANGED <<toplevel_vars, topology_vars, popups, focus_vars, seat_vars,
                   history_vars, panicked>>

\* wl_output.as_ref().and_then(Output::from_resource): the request names no output
\* (None), a resource that is no longer an output (Some(None)) or an output
requested_output(wl_output) == IF wl_output = None THEN None ELSE wl_output[1]

\* the calls fullscreen_request makes on the layout engine, in order
fullscreen_layout_calls(s, cap, wl_output) ==
    IF cap /\ find_window_and_output(s) # None
    THEN LET w == find_window_and_output(s)[1]
             req == requested_output(wl_output)
         IN  IF req # None /\ req[1] # w.output
             THEN <<"move_window_to_output", "set_fullscreen">>
             ELSE <<"set_fullscreen">>
    ELSE <<>>

\* a plausible bug: the window is made fullscreen where it is, the requested
\* output is not looked at
fullscreen_layout_stays_on_output(s, cap, wl_output) ==
    IF cap /\ find_window_and_output(s) # None
    THEN [layout_windows EXCEPT
             ![s] = Some([find_window_and_output(s)[1] EXCEPT !.fullscreen = TRUE])]
    ELSE layout_windows

\* the layout engine after fullscreen_request
fullscreen_layout(s, cap, wl_output) ==
    IF cap /\ find_window_and_output(s) # None
    THEN LET w == find_window_and_output(s)[1]
             req == requested_output(wl_output)
             moved == IF req # None /\ req[1] # w.output
                      THEN [w EXCEPT !.output = req[1]]
                      ELSE w
         IN  [layout_windows EXCEPT ![s] = Some([moved EXCEPT !.fullscreen = TRUE])]
    ELSE layout_windows

\* a plausible bug: the capability check is left out for unmapped toplevels
fullscreen_pending_ignores_capability(s, cap) ==
    IF /\ find_window_and_output(s) = None
       /\ s \in unmapped_windows
       /\ active_workspace # None
    THEN [toplevel[s].pending EXCEPT
             !.size = Some(view_size(active_workspace[1])),
             !.fullscreen = TRUE]
    ELSE toplevel[s].pending

\* the toplevel's pending state after fullscreen_request
fullscreen_pending(s, cap) ==
    IF /\ cap
       /\ find_window_and_output(s) = None
       /\ s \in unmapped_windows
       /\ active_workspace # None
    THEN [toplevel[s].pending EXCEPT
             !.size = Some(view_size(active_workspace[1])),
             !.fullscreen = TRUE]
    ELSE toplevel[s].pending

\* fn fullscreen_request(&mut self, surface, wl_output); cap is
\* surface.current_state().capabilities.contains(WmCapabilities::Fullscreen)
fullscreen_request(s, cap, wl_output) ==
    /\ layout_windows' = fullscreen_layout(s, cap, wl_output)
    /\ toplevel' = [toplevel EXCEPT
            ![s].pending = fullscreen_pending(s, cap),
            ![s].initial_configure_sent = TRUE]
    /\ owed' = owed \ {s}
    /\ last' = Call("fullscreen_request", s,
                    [cap |-> cap, wl_output |-> wl_output,
                     layout_calls |-> fullscreen_layout_calls(s, cap, wl_output)],
                    <<fullscreen_pending(s, cap)>>)
    /\ UNCHANGED <<unmapped_windows, redraw_queued, topology_vars, popups, focus_vars,
                   seat_vars, deco_request, panicked>>

\* fn unfullscreen_request(&mut self, surface)
unfullscreen_request(s) ==
    LET rules == resolve_window_rules(config.window_rules, toplevel[s].role)
        ws == target_workspace(rules)
    IN  /\ IF find_window_and_output(s) # None
           THEN /\ layout_windows' = [layout_windows EXCEPT
                       ![s] = Some([find_window_and_output(s)[1] EXCEPT !.fullscreen = FALSE])]
                /\ UNCHANGED <<toplevel, panicked>>
           ELSE IF s \in unmapped_windows
           THEN IF rule_monitor_missing(rules)
                THEN /\ panicked' = Some("unfullscreen_request")
                     /\ UNCHANGED <<toplevel, layout_windows>>
                ELSE IF ws # None
                THEN /\ toplevel' = [toplevel EXCEPT
                            ![s].pending.size =
                                Some(new_window_size(ws[1], rules.default_width)),
                            ![s].pending.fullscreen = FALSE]
                     /\ UNCHANGED <<layout_windows, panicked>>
                ELSE UNCHANGED <<toplevel, layout_windows, panicked>>
           ELSE UNCHANGED <<toplevel, layout_windows, panicked>>
        /\ last' = Call("unfullscreen_request", s, NoArgs, <<>>)
        /\ UNCHANGED <<unmapped_windows, redraw_queued, topology_vars, popups, focus_vars,
                       seat_vars, history_vars>>

\* a plausible bug: the window is not removed from the layout
toplevel_destroyed_keeps_window(s) ==
    /\ IF s \in unmapped_windows
       THEN /\ unmapped_windows' = unmapped_windows \ {s}
            /\ last' = Call("toplevel_destroyed", s, [logged |-> FALSE], <<>>)
            /\ UNCHANGED <<layout_windows, redraw_queued>>
       ELSE IF find_window_and_output(s) = None
       THEN /\ last' = Call("toplevel_destroyed", s, [logged |-> TRUE], <<>>)
            /\ UNCHANGED <<unmapped_windows, layout_windows, redraw_queued>>
       ELSE /\ redraw_queued' = redraw_queued \cup {find_window_and_output(s)[1].output}
            /\ last' = Call("toplevel_destroyed", s, [logged |-> FALSE], <<>>)
            /\ UNCHANGED <<unmapped_windows, layout_windows>>
    /\ toplevel' = [toplevel EXCEPT ![s] = DeadToplevel]
    /\ deco_request' = [deco_request EXCEPT ![s] = None]
    /\ owed' = owed \ {s}
    /\ UNCHANGED <<topology_vars, popups, focus_vars, seat_vars, panicked>>

\* a plausible bug: the redraw of the window's output is not queued
toplevel_destroyed_no_redraw(s) ==
    /\ IF s \in unmapped_windows
       THEN /\ unmapped_windows' = unmapped_windows \ {s}
            /\ last' = Call("toplevel_destroyed", s, [logged |-> FALSE], <<>>)
            /\ UNCHANGED <<layout_windows, redraw_queued>>
       ELSE IF find_window_and_output(s) = None
       THEN /\ last' = Call("toplevel_destroyed", s, [logged |-> TRUE], <<>>)
            /\ UNCHANGED <<unmapped_windows, layout_windows, redraw_queued>>
       ELSE /\ layout_windows' = [layout_windows EXCEPT ![s] = None]
            /\ last' = Call("toplevel_destroyed", s, [logged |-> FALSE], <<>>)
            /\ UNCHANGED <<unmapped_windows, redraw_queued>>
    /\ toplevel' = [toplevel EXCEPT ![s] = DeadToplevel]
    /\ deco_request' = [deco_request EXCEPT ![s] = None]
    /\ owed' = owed \ {s}
    /\ UNCHANGED <<topology_vars, popups, focus_vars, seat_vars, panicked>>

\* a plausible bug: win_out is unwrapped instead of matched with let-else
toplevel_destroyed_unwraps(s) ==
    /\ IF s \in unmapped_windows
       THEN /\ unmapped_windows' = unmapped_windows \ {s}
            /\ last' = Call("toplevel_destroyed", s, [logged |-> FALSE], <<>>)
            /\ UNCHANGED <<layout_windows, redraw_queued, panicked>>
       ELSE IF find_window_and_output(s) = None
       THEN /\ last' = Call("toplevel_destroyed", s, [logged |-> FALSE], <<>>)
            /\ panicked' = Some("toplevel_destroyed")
            /\ UNCHANGED <<unmapped_windows, layout_windows, redraw_queued>>
       ELSE /\ layout_windows' = [layout_windows EXCEPT ![s] = None]
            /\ redraw_queued' = redraw_queued \cup {find_window_and_output(s)[1].output}
            /\ last' = Call("toplevel_destroyed", s, [logged |-> FALSE], <<>>)
            /\ UNCHANGED <<unmapped_windows, panicked>>
    /\ toplevel' = [toplevel EXCEPT ![s] = DeadToplevel]
    /\ deco_request' = [deco_request EXCEPT ![s] = None]
    /\ owed' = owed \ {s}
    /\ UNCHANGED <<topology_vars, popups, focus_vars, seat_vars>>

\* fn toplevel_destroyed(&mut self, surface); the xdg_toplevel object is gone
toplevel_destroyed(s) ==
    /\ IF s \in unmapped_windows
       THEN /\ unmapped_windows' = unmapped_windows \ {s}
            /\ last' = Call("toplevel_destroyed", s, [logged |-> FALSE], <<>>)
            /\ UNCHANGED <<layout_windows, redraw_queued>>
       ELSE IF find_window_and_output(s) = None
       THEN /\ last' = Call("toplevel_destroyed", s, [logged |-> TRUE], <<>>)
            /\ UNCHANGED <<unmapped_windows, layout_windows, redraw_queued>>
       ELSE /\ layout_windows' = [layout_windows EXCEPT ![s] = None]
            /\ redraw_queued' = redraw_queued \cup {find_window_and_output(s)[1].output}
            /\ last' = Call("toplevel_destroyed", s, [logged |-> FALSE], <<>>)
            /\ UNCHANGED unmapped_windows
    /\ toplevel' = [toplevel EXCEPT ![s] = DeadToplevel]
    /\ deco_request' = [deco_request EXCEPT ![s] = None]
    /\ owed' = owed \ {s}
    /\ UNCHANGED <<topology_vars, popups, focus_vars, seat_vars, panicked>>

(***************************************************************************)
(* XdgDecorationHandler.                                                   *)
(***************************************************************************)

\* a plausible bug: new_decoration replies like the two mode requests do
new_decoration_replies(s) ==
    LET pending == [toplevel[s].pending EXCEPT !.decoration_mode = Some("ServerSide")]
    IN  /\ toplevel' = [toplevel EXCEPT ![s].pending = pending]
        /\ deco_request' = [deco_request EXCEPT ![s] = None]
        /\ last' = Call("new_decoration", s, NoArgs,
                        IF initial_configure_sent(s) THEN <<pending>> ELSE <<>>)
        /\ UNCHANGED <<unmapped_windows, layout_windows, redraw_queued, topology_vars,
                       popups, focus_vars, seat_vars, owed, panicked>>

\* fn new_decoration(&mut self, toplevel)
new_decoration(s) ==
    /\ toplevel' = [toplevel EXCEPT ![s].pending.decoration_mode = Some("ServerSide")]
    /\ deco_request' = [deco_request EXCEPT ![s] = None]
    /\ last' = Call("new_decoration", s, NoArgs, <<>>)
    /\ UNCHANGED <<unmapped_windows, layout_windows, redraw_queued, topology_vars, popups,
                   focus_vars, seat_vars, owed, panicked>>

\* the pending state after a decoration request for `mode`, and the reply: a
\* configure now if the initial configure was sent, none otherwise
decoration_reply(op, s, mode, args) ==
    LET pending == [toplevel[s].pending EXCEPT !.decoration_mode = Some(mode)]
    IN  /\ toplevel' = [toplevel EXCEPT ![s].pending = pending]
        /\ IF initial_configure_sent(s)
           THEN /\ last' = Call(op, s, args, <<pending>>)
                /\ owed' = owed \ {s}
           ELSE /\ last' = Call(op, s, args, <<>>)
                /\ owed' = owed \cup {s}
        /\ UNCHANGED <<unmapped_windows, layout_windows, redraw_queued, topology_vars,
                       popups, focus_vars, seat_vars, panicked>>

\* a plausible bug: the compositor's preferred mode is set instead of the client's
request_mode_forces_server_side(s, mode) ==
    /\ decoration_reply("request_mode", s, "ServerSide", [mode |-> mode])
    /\ deco_request' = [deco_request EXCEPT ![s] = Some(mode)]

\* fn request_mode(&mut self, toplevel, mode)
request_mode(s, mode) ==
    /\ decoration_reply("request_mode", s, mode, [mode |-> mode])
    /\ deco_request' = [deco_request EXCEPT ![s] = Some(mode)]

\* a plausible bug: the reply is left to a later configure even after the initial one
unset_mode_never_replies(s) ==
    /\ toplevel' = [toplevel EXCEPT ![s].pending.decoration_mode = Some("ServerSide")]
    /\ last' = Call("unset_mode", s, NoArgs, <<>>)
    /\ owed' = owed \cup {s}
    /\ deco_request' = [deco_request EXCEPT ![s] = None]
    /\ UNCHANGED <<unmapped_windows, layout_windows, redraw_queued, topology_vars,
                   popups, focus_vars, seat_vars, panicked>>

\* fn unset_mode(&mut self, toplevel)
unset_mode(s) ==
    /\ decoration_reply("unset_mode", s, "ServerSide", NoArgs)
    /\ deco_request' = [deco_request EXCEPT ![s] = None]

(***************************************************************************)
(* The popup grab arbiter.                                                 *)
(***************************************************************************)

\* the session lock's surfaces, one per output
LockSurfaces == {"k1", "k2"}

\* a layer-shell surface
LayerSurfaces == {"l1"}

\* the surfaces a popup chain can be rooted at
Roots == Surfaces \cup LayerSurfaces \cup LockSurfaces

Layers == {"Background", "Bottom", "Top", "Overlay"}

\* a plausible bug: the input method's keyboard grab is not looked at
keyboard_grabbed_never == FALSE

\* seat.input_method().keyboard_grabbed()
keyboard_grabbed == ime_keyboard_grabbed

\* find_popup_root_surface(&popup): Err is None
find_popup_root_surface(p) == popups[p].root

\* a plausible bug: under lock any lock surface is accepted as the root
focus_allows_any_lock_surface(root) ==
    IF locked
    THEN root \in LockSurfaces
    ELSE IF screenshot_open
    THEN FALSE
    ELSE IF active_output # None
    THEN IF layer_of_root[root] # None
         THEN layer_of_root[root][1] \in {"Overlay", "Top"}
         ELSE IF overlay_focusable
         THEN FALSE
         ELSE IF ~render_above_top /\ top_focusable
         THEN FALSE
         ELSE Some(root) = layout_focus
    ELSE FALSE

\* a plausible bug: a focusable Top layer surface blocks the window's popup
\* even when the monitor renders above the Top layer
focus_allows_ignores_render_above_top(root) ==
    IF locked
    THEN Some(root) = lock_focus
    ELSE IF screenshot_open
    THEN FALSE
    ELSE IF active_output # None
    THEN IF layer_of_root[root] # None
         THEN layer_of_root[root][1] \in {"Overlay", "Top"}
         ELSE IF overlay_focusable
         THEN FALSE
         ELSE IF top_focusable
         THEN FALSE
         ELSE Some(root) = layout_focus
    ELSE FALSE

\* a plausible bug: a layer surface's popup is accepted on any layer
focus_allows_any_layer(root) ==
    IF locked
    THEN Some(root) = lock_focus
    ELSE IF screenshot_open
    THEN FALSE
    ELSE IF active_output # None
    THEN IF layer_of_root[root] # None
         THEN TRUE
         ELSE IF overlay_focusable
         THEN FALSE
         ELSE IF ~render_above_top /\ top_focusable
         THEN FALSE
         ELSE Some(root) = layout_focus
    ELSE FALSE

\* a plausible bug: the screenshot UI is looked at before the lock
focus_allows_screenshot_first(root) ==
    IF screenshot_open
    THEN FALSE
    ELSE IF locked
    THEN Some(root) = lock_focus
    ELSE IF active_output # None
    THEN IF layer_of_root[root] # None
         THEN layer_of_root[root][1] \in {"Overlay", "Top"}
         ELSE IF overlay_focusable
         THEN FALSE
         ELSE IF ~render_above_top /\ top_focusable
         THEN FALSE
         ELSE Some(root) = layout_focus
    ELSE FALSE

\* the decision of grab() between finding the root and asking the tracker:
\* TRUE goes on, FALSE dismisses the popup and returns
focus_allows(root) ==
    IF locked
    THEN Some(root) = lock_focus
    ELSE IF screenshot_open
    THEN FALSE
    ELSE IF active_output # None
    THEN IF layer_of_root[root] # None
         THEN layer_of_root[root][1] \in {"Overlay", "Top"}
         ELSE IF overlay_focusable
         THEN FALSE
         ELSE IF ~render_above_top /\ top_focusable
         THEN FALSE
         ELSE Some(root) = layout_focus
    ELSE FALSE

\* KeyboardHandle/PointerHandle::is_grabbed()
is_grabbed(device_grab) == device_grab # None

\* KeyboardHandle/PointerHandle::has_grab(serial)
has_grab(device_grab, serial) ==
    device_grab # None /\ device_grab[1].serial = serial

\* a plausible bug: the session's previous serial is not accepted
grab_mismatches_ignores_previous_serial(device_grab, serial, previous_serial) ==
    /\ is_grabbed(device_grab)
    /\ ~has_grab(device_grab, serial)

\* keyboard_grab_mismatches / pointer_grab_mismatches: a request without a
\* previous serial never mismatches (map_or(true, ..))
grab_mismatches(device_grab, serial, previous_serial) ==
    /\ is_grabbed(device_grab)
    /\ ~(\/ has_grab(device_grab, serial)
         \/ IF previous_serial = None
            THEN TRUE
            ELSE has_grab(device_grab, previous_serial[1]))

\* the PopupGrab the tracker hands out for this request
PopupGrab(root, p, serial, previous_serial) ==
    [root |-> root, popup |-> p, serial |-> serial, previous_serial |-> previous_serial]

\* what PopupManager::grab_popup can answer: Err, or Ok with the previous
\* serial of the popup chain
TrackerResults ==
    {[ok |-> FALSE, previous_serial |-> None]} \cup
    {[ok |-> TRUE, previous_serial |-> ps] :
        ps \in {None} \cup {Some(k) : k \in 1..MaxSerial}}

\* replaced is the pair of seat grabs (keyboard, pointer) that set_grab replaced
GrabArgs(serial, root, outcome, tracker, dismissed, ungrabbed, replaced) ==
    [serial |-> serial, root |-> root, outcome |-> outcome, tracker |-> tracker,
     dismissed |-> dismissed, ungrabbed |-> ungrabbed, replaced |-> replaced]

\* a plausible bug: the pointer grab is not installed with the keyboard grab
install_grab_keeps_pointer(session, serial) ==
    /\ keyboard_focus' = Some(session.popup)
    /\ keyboard_grab' = Some([session |-> session, serial |-> serial])
    /\ popup_grab' = Some([root |-> session.root, grab |-> session])
    /\ UNCHANGED pointer_grab

\* the tail of grab(): focus, both seat grabs and niri.popup_grab
install_grab(session, serial) ==
    /\ keyboard_focus' = Some(session.popup)
    /\ keyboard_grab' = Some([session |-> session, serial |-> serial])
    /\ pointer_grab' = Some([session |-> session, serial |-> serial])
    /\ popup_grab' = Some([root |-> session.root, grab |-> session])

\* fn grab(&mut self, surface: PopupSurface, _seat, serial); tracker is what
\* PopupManager::grab_popup answers if it is asked
grab(p, serial, tracker) ==
    LET root == find_popup_root_surface(p)
        session == PopupGrab(root[1], p, serial, tracker.previous_serial)
    IN  /\ IF keyboard_grabbed
           THEN /\ last' = Call("grab", p,
                                GrabArgs(serial, None, "ime_ignored", None, FALSE, FALSE, None),
                                <<>>)
                /\ UNCHANGED seat_vars
           ELSE IF root = None
           THEN /\ last' = Call("grab", p,
                                GrabArgs(serial, None, "no_root", None, FALSE, FALSE, None),
                                <<>>)
                /\ UNCHANGED seat_vars
           ELSE IF ~focus_allows(root[1])
           THEN /\ last' = Call("grab", p,
                                GrabArgs(serial, root, "dismissed", None, TRUE, FALSE, None),
                                <<>>)
                /\ UNCHANGED seat_vars
           ELSE IF ~tracker.ok
           THEN /\ last' = Call("grab", p,
                                GrabArgs(serial, root, "tracker_err", Some(tracker),
                                         FALSE, FALSE, None),
                                <<>>)
                /\ UNCHANGED seat_vars
           ELSE IF \/ grab_mismatches(keyboard_grab, serial, tracker.previous_serial)
                   \/ grab_mismatches(pointer_grab, serial, tracker.previous_serial)
           THEN /\ last' = Call("grab", p,
                                GrabArgs(serial, root, "stale_ungrabbed", Some(tracker),
                                         FALSE, TRUE, None),
                                <<>>)
                /\ UNCHANGED seat_vars
           ELSE /\ last' = Call("grab", p,
                                GrabArgs(serial, root, "granted", Some(tracker),
                                         FALSE, FALSE,
                                         Some(<<keyboard_grab, pointer_grab>>)),
                                <<>>)
                /\ install_grab(session, serial)
        /\ UNCHANGED <<toplevel_vars, topology_vars, popups, focus_vars, history_vars,
                       panicked>>

(***************************************************************************)
(* Popup geometry.                                                         *)
(***************************************************************************)

\* Rectangle<i32, Logical>
Rect(x, y, w, h) == [loc |-> [x |-> x, y |-> y], size |-> [w |-> w, h |-> h]]

\* Rectangle::contains_rect
contains_rect(outer, inner) ==
    /\ inner.loc.x >= outer.loc.x
    /\ inner.loc.y >= outer.loc.y
    /\ inner.loc.x + inner.size.w <= outer.loc.x + outer.size.w
    /\ inner.loc.y + inner.size.h <= outer.loc.y + outer.size.h

\* const PADDING: i32 = 8
PADDING == 8

\* a plausible bug: an axis of exactly twice the padding is padded too
padded_target_inclusive(target) ==
    LET pad_x == PADDING * 2 <= target.size.w
        pad_y == PADDING * 2 <= target.size.h
    IN  Rect(IF pad_x THEN target.loc.x + PADDING ELSE target.loc.x,
             IF pad_y THEN target.loc.y + PADDING ELSE target.loc.y,
             IF pad_x THEN target.size.w - PADDING * 2 ELSE target.size.w,
             IF pad_y THEN target.size.h - PADDING * 2 ELSE target.size.h)

\* `padded` in unconstrain_with_padding: each axis is shrunk on its own
padded_target(target) ==
    LET pad_x == PADDING * 2 < target.size.w
        pad_y == PADDING * 2 < target.size.h
    IN  Rect(IF pad_x THEN target.loc.x + PADDING ELSE target.loc.x,
             IF pad_y THEN target.loc.y + PADDING ELSE target.loc.y,
             IF pad_x THEN target.size.w - PADDING * 2 ELSE target.size.w,
             IF pad_y THEN target.size.h - PADDING * 2 ELSE target.size.h)

\* PositionerState::get_unconstrained_geometry.  The solver is smithay's; a
\* positioner is carried as the answers the solver gives for it: one with its
\* own constraint adjustment against the target, one with ResizeX and ResizeY
\* removed against the padded target.
get_unconstrained_geometry(positioner, resize_removed) ==
    IF resize_removed
    THEN positioner.unconstrained_no_resize
    ELSE positioner.unconstrained

\* fn unconstrain_with_padding(positioner, target) -> Rectangle
unconstrain_with_padding(positioner, target) ==
    LET padded == padded_target(target)
        geo == get_unconstrained_geometry(positioner, TRUE)
    IN  IF padded = target
        THEN get_unconstrained_geometry(positioner, FALSE)
        ELSE IF contains_rect(padded, geo)
        THEN geo
        ELSE get_unconstrained_geometry(positioner, FALSE)

\* pub fn unconstrain_popup(&self, popup), on the popup's record: the root is a
\* window of the layout, or a layer surface (arranged or not), or neither
unconstrain_popup(popup, layer_arranged) ==
    IF popup.root = None
    THEN popup
    ELSE IF popup.root[1] \in Surfaces /\ find_window_and_output(popup.root[1]) # None
    THEN [popup EXCEPT !.geometry = unconstrain_with_padding(popup.positioner, popup.target)]
    ELSE IF popup.root[1] \in LayerSurfaces /\ layer_of_root[popup.root[1]] # None
    THEN IF layer_arranged
         THEN [popup EXCEPT
                  !.geometry = unconstrain_with_padding(popup.positioner, popup.target)]
         ELSE popup
    ELSE popup

\* fn new_popup(&mut self, surface, _positioner); track_ok is whether
\* popups.track_popup returns Ok
new_popup(p, layer_arranged, track_ok) ==
    /\ popups' = [popups EXCEPT
            ![p] = [unconstrain_popup(popups[p], layer_arranged) EXCEPT
                       !.kind = IF track_ok THEN "xdg" ELSE @]]
    /\ last' = Call("new_popup", p, [tracked |-> track_ok], <<>>)
    /\ UNCHANGED <<toplevel_vars, topology_vars, focus_vars, seat_vars, history_vars,
                   panicked>>

\* fn reposition_request(&mut self, surface, positioner, token)
reposition_request(p, positioner, token, layer_arranged) ==
    /\ popups' = [popups EXCEPT
            ![p] = unconstrain_popup([popups[p] EXCEPT !.geometry = positioner.geometry,
                                                       !.positioner = positioner],
                                     layer_arranged)]
    /\ last' = Call("reposition_request", p, [repositioned |-> token], <<>>)
    /\ UNCHANGED <<toplevel_vars, topology_vars, focus_vars, seat_vars, history_vars,
                   panicked>>

\* fn popup_destroyed(&mut self, surface); output is what output_for_popup finds
popup_destroyed(p, output) ==
    /\ redraw_queued' = IF output # None THEN redraw_queued \cup {output[1]}
                                         ELSE redraw_queued
    /\ popups' = [popups EXCEPT ![p].kind = "untracked",
                                ![p].initial_configure_sent = FALSE]
    /\ last' = Call("popup_destroyed", p, [output |-> output], <<>>)
    /\ UNCHANGED <<unmapped_windows, layout_windows, toplevel, topology_vars, focus_vars,
                   seat_vars, history_vars, panicked>>

(***************************************************************************)
(* Popup commits.                                                          *)
(***************************************************************************)

\* what the popup tracker knows a surface as: nothing, an xdg popup or an
\* input-method popup
PopupKinds == {"untracked", "xdg", "ime"}

\* what a commit put on the wire, in order: the surface state (scale and
\* transform of the output) if an output was found, then the configure
commit_events(output_found, configure_ok) ==
    (IF output_found THEN <<"surface_state">> ELSE <<>>) \o
    (IF configure_ok THEN <<"configure">> ELSE <<>>)

\* a plausible bug: the popup is configured on every commit
popups_handle_commit_every_commit(p, output_found, configure_ok) ==
    /\ IF popups[p].kind = "xdg"
       THEN IF configure_ok
            THEN /\ popups' = [popups EXCEPT ![p].initial_configure_sent = TRUE]
                 /\ last' = Call("popups_handle_commit", p,
                                 [surface_state_sent |-> output_found,
                                  configure_failed |-> FALSE,
                                  events |-> commit_events(output_found, TRUE)],
                                 <<"popup_configure">>)
                 /\ UNCHANGED panicked
            ELSE /\ panicked' = Some("popups_handle_commit")
                 /\ last' = Call("popups_handle_commit", p,
                                 [surface_state_sent |-> output_found,
                                  configure_failed |-> TRUE,
                                  events |-> commit_events(output_found, FALSE)],
                                 <<>>)
                 /\ UNCHANGED popups
       ELSE /\ last' = Call("popups_handle_commit", p,
                            [surface_state_sent |-> FALSE, configure_failed |-> FALSE,
                             events |-> <<>>],
                            <<>>)
            /\ UNCHANGED <<popups, panicked>>
    /\ UNCHANGED <<toplevel_vars, topology_vars, focus_vars, seat_vars, history_vars>>

\* pub fn popups_handle_commit(&mut self, surface); output_found is whether
\* output_for_popup resolves an output, configure_ok whether
\* popup.send_configure() returns Ok
popups_handle_commit(p, output_found, configure_ok) ==
    /\ IF popups[p].kind = "xdg" /\ ~popups[p].initial_configure_sent
       THEN IF configure_ok
            THEN /\ popups' = [popups EXCEPT ![p].initial_configure_sent = TRUE]
                 /\ last' = Call("popups_handle_commit", p,
                                 [surface_state_sent |-> output_found,
                                  configure_failed |-> FALSE,
                                  events |-> commit_events(output_found, TRUE)],
                                 <<"popup_configure">>)
                 /\ UNCHANGED panicked
            ELSE /\ panicked' = Some("popups_handle_commit")
                 /\ last' = Call("popups_handle_commit", p,
                                 [surface_state_sent |-> output_found,
                                  configure_failed |-> TRUE,
                                  events |-> commit_events(output_found, FALSE)],
                                 <<>>)
                 /\ UNCHANGED popups
       ELSE /\ last' = Call("popups_handle_commit", p,
                            [surface_state_sent |-> FALSE, configure_failed |-> FALSE,
                             events |-> <<>>],
                            <<>>)
            /\ UNCHANGED <<popups, panicked>>
    /\ UNCHANGED <<toplevel_vars, topology_vars, focus_vars, seat_vars, history_vars>>

(***************************************************************************)
(* Initial states.                                                         *)
(***************************************************************************)

\* a window rule of the configuration
Rule(matches, excludes, width, output) ==
    [matches |-> matches, excludes |-> excludes, default_column_width |-> width,
     open_on_output |-> output]

MatchA == [app_id |-> Some(ReA), title |-> None]
MatchT == [app_id |-> None, title |-> Some(ReT)]

\* the rule lists of the configurations the handlers run under: no rules; a
\* default width and an output for every window; app "a" sent to an output name
\* nobody has, after a default width for all
ConfigRuleLists ==
    { <<>>,
      <<Rule(<<>>, <<>>, Some(<<[preset |-> "Fixed", value |-> 2]>>), Some("o2"))>>,
      <<Rule(<<>>, <<>>, Some(<<>>), None), Rule(<<MatchA>>, <<>>, None, Some("o3"))>> }

Configs == [window_rules : ConfigRuleLists, prefer_no_csd : BOOLEAN]

\* no output connected, or both outputs connected with o1 active
Topologies ==
    { [monitors |-> {}, active_output |-> None,
       output_by_name |-> [n \in OutputNames |-> None]],
      [monitors |-> Outputs, active_output |-> Some("o1"),
       output_by_name |-> [n \in OutputNames |-> IF n \in Outputs THEN Some(n) ELSE None]] }

\* popup surfaces
PopupSurfaces == {"p1", "p2", "p3", "p4"}

InitToplevels ==
    /\ unmapped_windows = {}
    /\ layout_windows = [s \in Surfaces |-> None]
    /\ toplevel = [s \in Surfaces |-> DeadToplevel]
    /\ redraw_queued = {}
    /\ deco_request = [s \in Surfaces |-> None]
    /\ owed = {}

InitPopups ==
    popups = [p \in PopupSurfaces |->
                 [kind |-> "untracked", initial_configure_sent |-> FALSE, root |-> None]]

InitFocus ==
    /\ ime_keyboard_grabbed = FALSE
    /\ locked = FALSE
    /\ lock_focus = None
    /\ screenshot_open = FALSE
    /\ layer_of_root = [r \in Roots |-> None]
    /\ overlay_focusable = FALSE
    /\ top_focusable = FALSE
    /\ render_above_top = FALSE
    /\ layout_focus = None

InitSeat ==
    /\ keyboard_focus = None
    /\ keyboard_grab = None
    /\ pointer_grab = None
    /\ popup_grab = None

InitObservation ==
    /\ last = Call("none", "none", NoArgs, <<>>)
    /\ panicked = None

InitTopology(topologies, configs) ==
    /\ config \in configs
    /\ \E t \in topologies :
          /\ monitors = t.monitors
          /\ active_output = t.active_output
          /\ output_by_name = t.output_by_name

Init ==
    /\ InitToplevels
    /\ InitPopups
    /\ InitFocus
    /\ InitSeat
    /\ InitObservation
    /\ InitTopology(Topologies, Configs)

(***************************************************************************)
(* The toplevel handlers driven by protocol-conforming clients: a surface   *)
(* gets a toplevel role only while it has none, requests come for live      *)
(* toplevels, and decoration requests come through a decoration object.     *)
(***************************************************************************)

WlOutputs == {None, Some(None)} \cup {Some(Some(o)) : o \in Outputs}

\* no handler has panicked: the process is still running
Running == panicked = None

Next ==
    \/ \E s \in Surfaces, role \in ToplevelRoles :
          Running /\ ~toplevel[s].alive /\ new_toplevel(s, role)
    \/ \E s \in Surfaces, o \in Outputs : Running /\ map_window(s, o)
    \/ \E s \in unmapped_windows : Running /\ send_initial_configure_if_needed(s)
    \/ \E s \in Surfaces : Running /\ toplevel[s].alive /\ maximize_request(s)
    \/ \E s \in Surfaces : Running /\ toplevel[s].alive /\ unmaximize_request(s)
    \/ \E s \in Surfaces, cap \in BOOLEAN, wl_output \in WlOutputs :
          Running /\ toplevel[s].alive /\ fullscreen_request(s, cap, wl_output)
    \/ \E s \in Surfaces : Running /\ toplevel[s].alive /\ unfullscreen_request(s)
    \/ \E s \in Surfaces : Running /\ toplevel[s].alive /\ toplevel_destroyed(s)
    \/ \E s \in Surfaces :
          /\ Running
          /\ toplevel[s].alive
          /\ toplevel[s].pending.decoration_mode = None
          /\ new_decoration(s)
    \/ \E s \in Surfaces, mode \in Modes :
          /\ Running
          /\ toplevel[s].alive
          /\ toplevel[s].pending.decoration_mode # None
          /\ request_mode(s, mode)
    \/ \E s \in Surfaces :
          /\ Running
          /\ toplevel[s].alive
          /\ toplevel[s].pending.decoration_mode # None
          /\ unset_mode(s)

Spec == Init /\ [][Next]_vars

\* send_initial_configure_if_needed runs on every commit of an unmapped toplevel,
\* and a client that wants its window shown keeps committing
LiveSpec ==
    /\ Spec
    /\ \A s \in Surfaces :
          WF_vars(Running /\ s \in unmapped_windows /\ send_initial_configure_if_needed(s))

(***************************************************************************)
(* Properties of the toplevel handlers.                                    *)
(***************************************************************************)

\* C1: a live toplevel surface (after new_toplevel, before toplevel_destroyed) is
\* never at once a key of unmapped_windows and findable through the layout
\* engine's find_window_and_output, whatever handlers have run.
C1_UnmappedAndLayoutDisjoint ==
    \A s \in Surfaces :
        toplevel[s].alive => ~(s \in unmapped_windows /\ find_window_and_output(s) # None)

\* a mapped window that a fullscreen request has just been served on
C1_Witness ==
    \E s \in Surfaces :
        /\ toplevel[s].alive
        /\ find_window_and_output(s) # None
        /\ s \notin unmapped_windows
        /\ last.op = "fullscreen_request"
        /\ last.args.cap

\* C3: every fullscreen_request emits exactly one configure; without the
\* Fullscreen capability the layout engine, the unmapped set and the toplevel's
\* pending state (size, fullscreen flag) are left as they were.
C3_FullscreenAlwaysConfigures ==
    [][last'.op = "fullscreen_request" =>
          /\ Len(last'.configures) = 1
          /\ (~last'.args.cap =>
                 /\ UNCHANGED <<layout_windows, unmapped_windows, redraw_queued>>
                 /\ \A s \in Surfaces : toplevel'[s].pending = toplevel[s].pending)]_vars

\* a fullscreen request on an unmapped toplevel without the capability, answered
C3_Witness ==
    /\ last.op = "fullscreen_request"
    /\ ~last.args.cap
    /\ last.surface \in unmapped_windows
    /\ Len(last.configures) = 1
    /\ ~toplevel[last.surface].pending.fullscreen

\* C4: request_mode on a toplevel whose initial configure is not sent emits no
\* configure, and the initial configure send_initial_configure_if_needed emits
\* later carries the mode of the latest request_mode.
C4_ModeRidesInitialConfigure ==
    /\ (/\ last.op = "request_mode"
        /\ ~initial_configure_sent(last.surface)) => last.configures = <<>>
    /\ (/\ last.op = "send_initial_configure_if_needed"
        /\ last.configures # <<>>
        /\ deco_request[last.surface] # None)
           => last.configures[1].decoration_mode = deco_request[last.surface]

\* the initial configure went out after a client-side request
C4_Witness ==
    /\ last.op = "send_initial_configure_if_needed"
    /\ last.configures # <<>>
    /\ deco_request[last.surface] = Some("ClientSide")

\* the requests the protocol wants answered by a configure
AnsweredNow == {"maximize_request", "fullscreen_request"}
DecorationRequests == {"request_mode", "unset_mode"}

C13_FirstConfigureIsInitial ==
    [][(/\ last'.surface \in Surfaces
        /\ last'.configures # <<>>
        /\ ~initial_configure_sent(last'.surface))
       => /\ last'.op = "send_initial_configure_if_needed"
          /\ last'.configures[1].tiled = config.prefer_no_csd
          /\ target_workspace(resolve_window_rules(config.window_rules,
                                                   toplevel[last'.surface].role)) # None
                => last'.configures[1].size # None]_vars

\* C14: a call of send_initial_configure_if_needed for a toplevel whose initial
\* configure was sent emits nothing and changes no state; a call that does emit
\* finds the flag unset and sets it, and the flag stays set for as long as the
\* toplevel lives, so one toplevel gets at most one configure from it.
C14_InitialConfigureIdempotent ==
    [][/\ (/\ last'.op = "send_initial_configure_if_needed"
           /\ initial_configure_sent(last'.surface))
          => /\ last'.configures = <<>>
             /\ UNCHANGED <<toplevel_vars, topology_vars, popups, focus_vars, seat_vars,
                            history_vars, panicked>>
       /\ (/\ last'.op = "send_initial_configure_if_needed"
           /\ last'.configures # <<>>)
          => /\ ~initial_configure_sent(last'.surface)
             /\ Len(last'.configures) = 1
             /\ toplevel'[last'.surface].initial_configure_sent
       /\ \A s \in Surfaces :
             (/\ initial_configure_sent(s)
              /\ last'.op \notin {"toplevel_destroyed", "new_toplevel"})
             => toplevel'[s].initial_configure_sent]_vars

\* a second call for a toplevel that has its initial configure, still unmapped
C14_Witness ==
    /\ last.op = "send_initial_configure_if_needed"
    /\ last.configures = <<>>
    /\ last.surface \in unmapped_windows
    /\ initial_configure_sent(last.surface)
    /\ toplevel[last.surface].pending.size # None

\* C21: for a toplevel whose initial configure was sent, request_mode(M) leaves
\* the pending decoration mode M, for either M, and unset_mode leaves it
\* ServerSide, and each call emits exactly one configure, carrying that mode;
\* new_decoration leaves the pending mode ServerSide and emits no configure.
C21_DecorationRequestsAfterInitialConfigure ==
    [][/\ (/\ last'.op = "request_mode"
           /\ initial_configure_sent(last'.surface))
          => /\ toplevel'[last'.surface].pending.decoration_mode = Some(last'.args.mode)
             /\ Len(last'.configures) = 1
             /\ last'.configures[1].decoration_mode = Some(last'.args.mode)
       /\ (/\ last'.op = "unset_mode"
           /\ initial_configure_sent(last'.surface))
          => /\ toplevel'[last'.surface].pending.decoration_mode = Some("ServerSide")
             /\ Len(last'.configures) = 1
             /\ last'.configures[1].decoration_mode = Some("ServerSide")
       /\ last'.op = "new_decoration"
          => /\ toplevel'[last'.surface].pending.decoration_mode = Some("ServerSide")
             /\ last'.configures = <<>>]_vars

\* a client-side request answered at once, on a toplevel configured before
C21_Witness ==
    /\ last.op = "request_mode"
    /\ last.args.mode = "ClientSide"
    /\ initial_configure_sent(last.surface)
    /\ Len(last.configures) = 1
    /\ toplevel[last.surface].pending.decoration_mode = Some("ClientSide")
    /\ toplevel[last.surface].pending.size # None

\* C22 as claimed: fullscreen_request with the Fullscreen capability on a
\* mapped toplevel moves the window first when the requested output resolves
\* and differs, and leaves it fullscreen in the layout engine, on the requested
\* output when one resolved and on its previous output otherwise, the unmapped
\* set unchanged; on an unmapped toplevel the pending size becomes the active
\* workspace's view size and the pending Fullscreen flag is set, the layout
\* engine unchanged.
C22_FullscreenOnMappedAndUnmapped ==
    [][(last'.op = "fullscreen_request" /\ last'.args.cap) =>
          LET s == last'.surface
              req == requested_output(last'.args.wl_output)
          IN  /\ find_window_and_output(s) # None =>
                    LET w == find_window_and_output(s)[1]
                    IN  /\ last'.args.layout_calls =
                               IF req # None /\ req[1] # w.output
                               THEN <<"move_window_to_output", "set_fullscreen">>
                               ELSE <<"set_fullscreen">>
                        /\ layout_windows'[s] # None
                        /\ layout_windows'[s][1].fullscreen
                        /\ layout_windows'[s][1].output =
                               IF req # None THEN req[1] ELSE w.output
                        /\ UNCHANGED unmapped_windows
              /\ (find_window_and_output(s) = None /\ s \in unmapped_windows) =>
                    /\ UNCHANGED layout_windows
                    /\ toplevel'[s].pending.fullscreen
                    /\ \E ws \in Outputs :
                          /\ active_workspace = Some(ws)
                          /\ toplevel'[s].pending.size = Some(view_size(ws))]_vars

\* C22, amended: as above for a mapped toplevel; on an unmapped toplevel the
\* pending size becomes the active workspace's view size and the pending
\* Fullscreen flag is set when the layout has an active workspace, and with no
\* active workspace the pending state is left as it was; the layout engine is
\* unchanged either way.
C22_FullscreenUnmappedNeedsWorkspace ==
    [][(last'.op = "fullscreen_request" /\ last'.args.cap) =>
          LET s == last'.surface
              req == requested_output(last'.args.wl_output)
          IN  /\ find_window_and_output(s) # None =>
                    LET w == find_window_and_output(s)[1]
                    IN  /\ last'.args.layout_calls =
                               IF req # None /\ req[1] # w.output
                               THEN <<"move_window_to_output", "set_fullscreen">>
                               ELSE <<"set_fullscreen">>
                        /\ layout_windows'[s] # None
                        /\ layout_windows'[s][1].fullscreen
                        /\ layout_windows'[s][1].output =
                               IF req # None THEN req[1] ELSE w.output
                        /\ UNCHANGED unmapped_windows
              /\ (find_window_and_output(s) = None /\ s \in unmapped_windows) =>
                    /\ UNCHANGED layout_windows
                    /\ IF active_workspace # None
                       THEN /\ toplevel'[s].pending.fullscreen
                            /\ toplevel'[s].pending.size =
                                   Some(view_size(active_workspace[1]))
                       ELSE toplevel'[s].pending = toplevel[s].pending]_vars

\* a mapped window was moved to the requested output and is fullscreen there
C22_Witness ==
    /\ last.op = "fullscreen_request"
    /\ last.args.cap
    /\ last.args.layout_calls = <<"move_window_to_output", "set_fullscreen">>
    /\ last.surface \notin unmapped_windows
    /\ find_window_and_output(last.surface) # None
    /\ find_window_and_output(last.surface)[1].fullscreen
    /\ Some(find_window_and_output(last.surface)[1].output) =
           requested_output(last.args.wl_output)

(***************************************************************************)
(* The window-rule resolver on its own: every rule list of up to MaxRules   *)
(* rules over RuleUniverse, resolved for a toplevel with each of RuleRoles. *)
(***************************************************************************)

\* rules that match every window, that match on app id or on title, and that
\* match every window but those with the excluded title; each with every
\* combination of an unset, an empty or a non-empty default width and an unset
\* or set output
RuleUniverse ==
    { Rule(m[1], m[2], w, o) :
        m \in { <<<<>>, <<>>>>, <<<<MatchA, MatchT>>, <<>>>>, <<<<>>, <<MatchT>>>> },
        w \in { None, Some(<<>>),
                Some(<<[preset |-> "Fixed", value |-> 2],
                       [preset |-> "Proportion", value |-> 1]>>) },
        o \in { None, Some("o1"), Some("o2") } }

RuleLists == UNION { [1..n -> RuleUniverse] : n \in 0..MaxRules }

RuleRoles ==
    { [app_id |-> a, title |-> t] :
        a \in {None, Some("a")}, t \in {None, Some("t")} }

InitRules ==
    /\ unmapped_windows = Surfaces
    /\ layout_windows = [s \in Surfaces |-> None]
    /\ toplevel \in [Surfaces -> {fresh_toplevel(r) : r \in RuleRoles}]
    /\ redraw_queued = {}
    /\ deco_request = [s \in Surfaces |-> None]
    /\ owed = {}
    /\ InitPopups
    /\ InitFocus
    /\ InitSeat
    /\ InitObservation
    /\ InitTopology(Topologies, [window_rules : RuleLists, prefer_no_csd : {FALSE}])
    /\ monitors = Outputs

\* resolve_window_rules(&config.window_rules, window.toplevel()) is evaluated
resolve(s) ==
    /\ last' = Call("resolve_window_rules", s,
                    [resolved |-> resolve_window_rules(config.window_rules,
                                                       toplevel[s].role)],
                    <<>>)
    /\ UNCHANGED <<toplevel_vars, topology_vars, popups, focus_vars, seat_vars,
                   history_vars, panicked>>

NextRules == \E s \in Surfaces : resolve(s)

SpecRules == InitRules /\ [][NextRules]_vars

\* rule i of the list applies to the window: it has no match criteria or one of
\* them matches, and none of its exclude criteria matches
Applies(rules, i, role) ==
    /\ \/ rules[i].matches = <<>>
       \/ \E k \in DOMAIN rules[i].matches : window_matches(role, rules[i].matches[k])
    /\ \A k \in DOMAIN rules[i].excludes : ~window_matches(role, rules[i].excludes[k])

\* the value of `field` in the last applying rule that sets it, if any
LastSetting(rules, role, field(_)) ==
    LET setters == {i \in DOMAIN rules : Applies(rules, i, role) /\ field(rules[i]) # None}
    IN  IF setters = {} THEN None
        ELSE field(rules[CHOOSE i \in setters : \A j \in setters : j <= i])

rule_open_on_output(rule) == rule.open_on_output

\* C10: the resolved default_width is the value of the last applying rule that
\* sets a default width, whatever later applying rules set for the output, and
\* the same with the fields exchanged; rules that are skipped give neither.
C10_LastMatchWinsPerField ==
    last.op = "resolve_window_rules" =>
        LET rules == config.window_rules
            role == toplevel[last.surface].role
        IN  /\ last.args.resolved.default_width
                  = LastSetting(rules, role, rule_default_width)
            /\ last.args.resolved.open_on_output
                  = LastSetting(rules, role, rule_open_on_output)

\* rule 1 sets the width, rule 2 applies too and sets only the output
C10_Witness ==
    /\ last.op = "resolve_window_rules"
    /\ Len(config.window_rules) = 2
    /\ Applies(config.window_rules, 1, toplevel[last.surface].role)
    /\ Applies(config.window_rules, 2, toplevel[last.surface].role)
    /\ config.window_rules[1].default_column_width # None
    /\ config.window_rules[1].open_on_output # None
    /\ config.window_rules[2].default_column_width = None
    /\ config.window_rules[2].open_on_output # None
    /\ config.window_rules[2].open_on_output # config.window_rules[1].open_on_output
    /\ last.args.resolved.default_width
          = rule_default_width(config.window_rules[1])
    /\ last.args.resolved.open_on_output = config.window_rules[2].open_on_output

(***************************************************************************)
(* The same handlers with collaborators that misbehave: a toplevel may be   *)
(* registered while its surface is still registered, a destroy may come for *)
(* a surface nobody holds, output_by_name may still name an output whose    *)
(* monitor the layout has dropped, and a popup's configure may fail.        *)
(***************************************************************************)

\* o2 is still in output_by_name, but the layout has no monitor for it
StaleTopology ==
    [monitors |-> {"o1"}, active_output |-> Some("o1"),
     output_by_name |-> [n \in OutputNames |-> IF n \in Outputs THEN Some(n) ELSE None]]

InitFault ==
    /\ InitToplevels
    /\ \E k \in PopupKinds :
          popups = [p \in PopupSurfaces |->
                       [kind |-> IF p = "p1" THEN k ELSE "untracked",
                        initial_configure_sent |-> FALSE, root |-> None]]
    /\ InitFocus
    /\ InitSeat
    /\ InitObservation
    /\ InitTopology({StaleTopology},
                    {c \in Configs : c.window_rules # <<>> /\ ~c.prefer_no_csd})

NextFault ==
    \/ \E s \in Surfaces, role \in ToplevelRoles : Running /\ new_toplevel(s, role)
    \/ \E s \in Surfaces, o \in Outputs : Running /\ map_window(s, o)
    \/ \E s \in unmapped_windows : Running /\ send_initial_configure_if_needed(s)
    \/ \E s \in Surfaces : Running /\ toplevel[s].alive /\ maximize_request(s)
    \/ \E s \in Surfaces, cap \in BOOLEAN, wl_output \in WlOutputs :
          Running /\ toplevel[s].alive /\ fullscreen_request(s, cap, wl_output)
    \/ \E s \in Surfaces : Running /\ toplevel[s].alive /\ unfullscreen_request(s)
    \/ \E s \in Surfaces : Running /\ toplevel_destroyed(s)
    \/ \E s \in Surfaces :
          /\ Running
          /\ toplevel[s].alive
          /\ toplevel[s].pending.decoration_mode = None
          /\ new_decoration(s)
    \/ \E s \in Surfaces, mode \in Modes :
          /\ Running
          /\ toplevel[s].alive
          /\ toplevel[s].pending.decoration_mode # None
          /\ request_mode(s, mode)
    \/ \E s \in Surfaces :
          /\ Running
          /\ toplevel[s].alive
          /\ toplevel[s].pending.decoration_mode # None
          /\ unset_mode(s)
    \/ \E p \in {"p1", "p2"}, output_found \in BOOLEAN, configure_ok \in BOOLEAN :
          Running /\ popups_handle_commit(p, output_found, configure_ok)

SpecFault == InitFault /\ [][NextFault]_vars

\* C8: toplevel_destroyed(s) takes s from the unmapped set and touches nothing
\* else if s is there; else removes the window the layout finds and queues a
\* redraw of its output; else logs and leaves the unmapped set, the layout and
\* the redraw queue as they were, without aborting.
C8_DestroyedRemovesFromOneOwner ==
    [][last'.op = "toplevel_destroyed" =>
          LET s == last'.surface
          IN  IF s \in unmapped_windows
              THEN /\ unmapped_windows' = unmapped_windows \ {s}
                   /\ UNCHANGED <<layout_windows, redraw_queued>>
                   /\ ~last'.args.logged
              ELSE IF find_window_and_output(s) # None
              THEN /\ layout_windows' = [layout_windows EXCEPT ![s] = None]
                   /\ redraw_queued' =
                         redraw_queued \cup {find_window_and_output(s)[1].output}
                   /\ UNCHANGED unmapped_windows
                   /\ ~last'.args.logged
              ELSE /\ UNCHANGED <<unmapped_windows, layout_windows, redraw_queued>>
                   /\ last'.args.logged
                   /\ panicked' = None]_vars

\* a destroy for a surface in neither set was logged and survived
C8_Witness ==
    /\ last.op = "toplevel_destroyed"
    /\ last.args.logged
    /\ panicked = None
    /\ redraw_queued # {}

\* C9 as claimed: no handler ever aborts the process.
C9_NoHandlerPanics == panicked = None

\* C9 as amended: a handler aborts the process only at one of its three
\* assertions: new_toplevel for a surface still in unmapped_windows,
\* send_initial_configure_if_needed or unfullscreen_request for an unmapped
\* toplevel whose rule names an output that output_by_name has and the layout
\* has no monitor for, and popups_handle_commit when the popup's initial
\* configure fails.  Every other outcome returns normally.
C9_PanicsOnlyAtAssertions ==
    [][panicked' # None =>
          LET s == last'.surface
          IN  \/ /\ last'.op = "new_toplevel"
                 /\ s \in unmapped_windows
                 /\ panicked' = Some("new_toplevel")
              \/ /\ last'.op \in {"send_initial_configure_if_needed",
                                  "unfullscreen_request"}
                 /\ s \in unmapped_windows
                 /\ last'.op = "unfullscreen_request" =>
                        find_window_and_output(s) = None
                 /\ last'.op = "send_initial_configure_if_needed" =>
                        ~initial_configure_sent(s)
                 /\ rule_monitor_missing(
                        resolve_window_rules(config.window_rules, toplevel[s].role))
                 /\ panicked' = Some(last'.op)
              \/ /\ last'.op = "popups_handle_commit"
                 /\ last'.args.configure_failed
                 /\ panicked' = Some("popups_handle_commit")]_vars

\* the initial configure of a toplevel whose rule names the stale output panicked
C9_Witness ==
    /\ panicked = Some("send_initial_configure_if_needed")
    /\ last.surface \in unmapped_windows
    /\ rule_output(resolve_window_rules(config.window_rules,
                                        toplevel[last.surface].role)) = Some("o2")

(***************************************************************************)
(* The popup grab arbiter: popup grab requests arriving in every focus      *)
(* situation, with the seat free or grabbed by something else.              *)
(***************************************************************************)

\* p1 hangs off the window, p2 off the layer surface, p3 off a lock surface,
\* p4 has lost its parent
PopupRoot ==
    [p \in PopupSurfaces |->
        CASE p = "p1" -> Some("s1")
          [] p = "p2" -> Some("l1")
          [] p = "p3" -> Some("k1")
          [] OTHER -> None]

\* a grab held by something other than a popup: a click, a move, a drag
ForeignGrab(serial) ==
    Some([session |-> [root |-> "none", popup |-> "none", serial |-> serial,
                       previous_serial |-> None],
          serial |-> serial])

InitGrabSeat ==
    /\ keyboard_focus = None
    /\ keyboard_grab \in {None, ForeignGrab(1)}
    /\ pointer_grab \in {None, ForeignGrab(1), ForeignGrab(MaxSerial)}
    /\ popup_grab = None

\* what grab() looks at once it is past the lock and the screenshot UI: the
\* root's layer, focusable Overlay and Top surfaces, the monitor's rendering
\* order and the layout focus
FocusDetails ==
    [layer : {None} \cup {Some(l) : l \in Layers},
     overlay_focusable : BOOLEAN, top_focusable : BOOLEAN, render_above_top : BOOLEAN,
     layout_focus : {None} \cup {Some(s) : s \in Surfaces}]

\* nothing on the layers and no focused window
NoFocusDetail ==
    [layer |-> None, overlay_focusable |-> FALSE, top_focusable |-> FALSE,
     render_above_top |-> FALSE, layout_focus |-> None]

\* the window focused and the layer surface on the Top layer: both roots would
\* get their grab if nothing outranked them
FavourableDetail ==
    [layer |-> Some("Top"), overlay_focusable |-> FALSE, top_focusable |-> FALSE,
     render_above_top |-> FALSE, layout_focus |-> Some("s1")]

\* the focus situations: the input method holding the keyboard or not, the
\* session locked (with any lock focus) or not, the screenshot UI open or not,
\* no output, and an output with every FocusDetails when nothing outranks it
InitGrabFocus ==
    /\ ime_keyboard_grabbed \in BOOLEAN
    /\ locked \in BOOLEAN
    /\ lock_focus \in {None} \cup {Some(k) : k \in LockSurfaces}
    /\ lock_focus # None => locked
    /\ screenshot_open \in BOOLEAN
    /\ \E d \in FocusDetails :
          /\ active_output = None => d = NoFocusDetail
          /\ (ime_keyboard_grabbed \/ locked \/ screenshot_open) =>
                d \in {NoFocusDetail, FavourableDetail}
          /\ layer_of_root = [r \in Roots |-> IF r \in LayerSurfaces THEN d.layer ELSE None]
          /\ overlay_focusable = d.overlay_focusable
          /\ top_focusable = d.top_focusable
          /\ render_above_top = d.render_above_top
          /\ layout_focus = d.layout_focus

\* with an output connected the window is mapped on it
InitGrabToplevels ==
    /\ unmapped_windows = {}
    /\ layout_windows = [s \in Surfaces |->
                            IF active_output # None
                            THEN Some([output |-> active_output[1], fullscreen |-> FALSE])
                            ELSE None]
    /\ toplevel = [s \in Surfaces |->
                      IF active_output # None
                      THEN [fresh_toplevel(NoRole) EXCEPT !.initial_configure_sent = TRUE]
                      ELSE DeadToplevel]
    /\ redraw_queued = {}
    /\ deco_request = [s \in Surfaces |-> None]
    /\ owed = {}

InitGrab ==
    /\ InitTopology(Topologies, {c \in Configs : c.window_rules = <<>> /\ ~c.prefer_no_csd})
    /\ InitGrabToplevels
    /\ popups = [p \in PopupSurfaces |->
                    [kind |-> "xdg", initial_configure_sent |-> TRUE, root |-> PopupRoot[p]]]
    /\ InitGrabFocus
    /\ InitGrabSeat
    /\ InitObservation

NextGrab ==
    \E p \in PopupSurfaces, serial \in 1..MaxSerial, tracker \in TrackerResults :
        Running /\ grab(p, serial, tracker)

SpecGrab == InitGrab /\ [][NextGrab]_vars

\* the claim's reading of a serial check that passes for one device: the
\* device is free, or holds a grab at the request's serial, or holds a grab
\* at the previous serial the new session records
SerialFresh(device_grab, serial, previous_serial) ==
    \/ device_grab = None
    \/ device_grab[1].serial = serial
    \/ previous_serial # None /\ device_grab[1].serial = previous_serial[1]

\* the request got past the focus checks and the tracker handed out a session
ReachedSerialCheck(call) ==
    /\ call.op = "grab"
    /\ call.args.tracker # None
    /\ call.args.tracker[1].ok

\* C2 as claimed: a request that obtained a session is denied whenever the
\* keyboard or the pointer is grabbed at a serial that is neither the
\* request's nor the session's previous serial, the session having no previous
\* serial included; the session is then fully ungrabbed and the seat's grabs
\* and the popup-grab state stay as they were.
C2_StaleSerialAlwaysDenied ==
    [][(/\ ReachedSerialCheck(last')
        /\ \/ ~SerialFresh(keyboard_grab, last'.args.serial,
                           last'.args.tracker[1].previous_serial)
           \/ ~SerialFresh(pointer_grab, last'.args.serial,
                           last'.args.tracker[1].previous_serial))
       => /\ last'.args.outcome = "stale_ungrabbed"
          /\ last'.args.ungrabbed
          /\ UNCHANGED <<keyboard_grab, pointer_grab, popup_grab>>]_vars

\* C5: while locked, with the input method not grabbing, a request whose popup
\* has a root is granted iff the root is the lock focus, the tracker accepts
\* and the serial is fresh: granted means the recorded state's root is the lock
\* focus; a root other than the lock focus, or no lock focus, dismisses the
\* popup and changes nothing on the seat.
C5_LockedGrantsOnlyLockFocus ==
    [][(last'.op = "grab" /\ locked /\ ~ime_keyboard_grabbed /\ last'.args.root # None)
       => LET root == last'.args.root[1]
              tracker == last'.args.tracker
          IN  IF Some(root) = lock_focus
              THEN /\ ~last'.args.dismissed
                   /\ tracker # None
                   /\ (/\ tracker[1].ok
                       /\ SerialFresh(keyboard_grab, last'.args.serial,
                                      tracker[1].previous_serial)
                       /\ SerialFresh(pointer_grab, last'.args.serial,
                                      tracker[1].previous_serial))
                      => /\ last'.args.outcome = "granted"
                         /\ popup_grab' # None
                         /\ popup_grab'[1].root = lock_focus[1]
                   /\ last'.args.outcome = "granted" => tracker[1].ok
              ELSE /\ last'.args.outcome = "dismissed"
                   /\ last'.args.dismissed
                   /\ UNCHANGED seat_vars]_vars

\* a popup rooted at the lock focus was granted its grab
C5_Witness ==
    /\ locked
    /\ last.op = "grab"
    /\ last.args.outcome = "granted"
    /\ popup_grab # None
    /\ Some(popup_grab[1].root) = lock_focus

\* C6: while niri.popup_grab is recorded, the seat's keyboard grab and pointer
\* grab are both grabs of the recorded session.
C6_SeatGrabsAreTheRecordedSession ==
    popup_grab # None =>
        /\ keyboard_grab # None
        /\ keyboard_grab[1].session = popup_grab[1].grab
        /\ pointer_grab # None
        /\ pointer_grab[1].session = popup_grab[1].grab

\* a later request on the recorded root was denied at the serial check
C6_Witness ==
    /\ popup_grab # None
    /\ last.op = "grab"
    /\ last.args.outcome = "stale_ungrabbed"
    /\ last.args.root = Some(popup_grab[1].root)
    /\ last.args.ungrabbed

(***************************************************************************)
(* The popup geometry: one xdg popup created and repositioned, for every    *)
(* target of TargetRects and every positioner of Positioners.               *)
(***************************************************************************)

\* targets around the padding threshold on either axis
TargetRects ==
    { Rect(x, x, w, h) : x \in {0, -4}, w \in {1, 16, 17, 32}, h \in {16, 17, 32} }

\* what the solver can answer: small and large rectangles, at the target's
\* corner, inside the padded region, or sticking out of the target
AnswerRects ==
    { Rect(x, y, 4, h) : x \in {-4, 8}, y \in {0, 8}, h \in {4, 40} }

Positioners ==
    [geometry : {Rect(-6, 0, 4, 4)},
     unconstrained : AnswerRects,
     unconstrained_no_resize : AnswerRects]

\* the positioners a reposition_request brings
NewPositioners ==
    { pos \in Positioners :
        /\ pos.unconstrained = Rect(-4, 0, 4, 4)
        /\ pos.unconstrained_no_resize \in {Rect(8, 8, 4, 4), Rect(8, 0, 4, 40)} }

\* p1 is the popup of a window, of a layer surface or of nothing
InitGeometry ==
    /\ InitTopology({t \in Topologies : t.monitors # {}},
                    {c \in Configs : c.window_rules = <<>> /\ ~c.prefer_no_csd})
    /\ InitGrabToplevels
    /\ InitFocus
    /\ InitSeat
    /\ InitObservation
    /\ \E root \in {None, Some("s1"), Some("l1")},
          target \in TargetRects, pos \in Positioners :
          popups = [p \in PopupSurfaces |->
                       [kind |-> "untracked", initial_configure_sent |-> FALSE,
                        root |-> IF p = "p1" THEN root ELSE None,
                        geometry |-> pos.geometry, positioner |-> pos, target |-> target]]

NextGeometry ==
    \/ \E layer_arranged \in BOOLEAN, track_ok \in BOOLEAN :
          /\ Running
          /\ popups["p1"].kind = "untracked"
          /\ new_popup("p1", layer_arranged, track_ok)
    \/ \E pos \in NewPositioners, token \in {1}, layer_arranged \in BOOLEAN :
          /\ Running
          /\ popups["p1"].kind = "xdg"
          /\ reposition_request("p1", pos, token, layer_arranged)

SpecGeometry == InitGeometry /\ [][NextGeometry]_vars

\* the last call ran unconstrain_with_padding for the popup of a mapped window
UnconstrainedWindowPopup ==
    /\ last.op \in {"new_popup", "reposition_request"}
    /\ popups[last.surface].root = Some("s1")
    /\ find_window_and_output("s1") # None

\* C11 as claimed: unless both the width and the height of the target exceed
\* 16, the padded region is the target and the result is the direct solve.
C11_PaddingOnlyIfBothAxesExceed ==
    UnconstrainedWindowPopup =>
        LET popup == popups[last.surface]
        IN  ~(popup.target.size.w > 16 /\ popup.target.size.h > 16) =>
                /\ padded_target(popup.target) = popup.target
                /\ popup.geometry = popup.positioner.unconstrained

\* C11 as amended: each axis is padded on its own, by 8 on either side iff
\* that axis exceeds 16; iff neither axis exceeds 16 the padded region is the
\* target, and the result is then the direct solve against the target.
C11_PaddingPerAxis ==
    UnconstrainedWindowPopup =>
        LET popup == popups[last.surface]
            t == popup.target
            padded == padded_target(t)
        IN  /\ IF t.size.w > 16
               THEN padded.loc.x = t.loc.x + 8 /\ padded.size.w = t.size.w - 16
               ELSE padded.loc.x = t.loc.x /\ padded.size.w = t.size.w
            /\ IF t.size.h > 16
               THEN padded.loc.y = t.loc.y + 8 /\ padded.size.h = t.size.h - 16
               ELSE padded.loc.y = t.loc.y /\ padded.size.h = t.size.h
            /\ (t.size.w <= 16 /\ t.size.h <= 16) =>
                  popup.geometry = popup.positioner.unconstrained
            /\ (t.size.w > 16 /\ t.size.h <= 16
                  /\ contains_rect(Rect(t.loc.x + 8, t.loc.y, t.size.w - 16, t.size.h),
                                   popup.positioner.unconstrained_no_resize)) =>
                  popup.geometry = popup.positioner.unconstrained_no_resize

\* a target wider than 16 and no higher than 16 got the padded placement
C11_Witness ==
    /\ UnconstrainedWindowPopup
    /\ popups[last.surface].target.size.w > 16
    /\ popups[last.surface].target.size.h <= 16
    /\ popups[last.surface].geometry = popups[last.surface].positioner.unconstrained_no_resize
    /\ popups[last.surface].geometry # popups[last.surface].positioner.unconstrained

(***************************************************************************)
(* The life of popups: p1 on the window and p2 on the layer surface are     *)
(* created, repositioned, committed and destroyed; p3 is an input-method    *)
(* popup and p4 a surface the tracker does not know.  Configures go through.*)
(***************************************************************************)

InitPopupLife ==
    /\ InitTopology({t \in Topologies : t.monitors # {}},
                    {c \in Configs : c.window_rules = <<>> /\ ~c.prefer_no_csd})
    /\ InitGrabToplevels
    /\ InitFocus
    /\ InitSeat
    /\ InitObservation
    /\ \E pos \in NewPositioners :
          popups = [p \in PopupSurfaces |->
                       [kind |-> IF p = "p3" THEN "ime" ELSE "untracked",
                        initial_configure_sent |-> FALSE,
                        root |-> PopupRoot[p],
                        geometry |-> pos.geometry, positioner |-> pos,
                        target |-> Rect(0, 0, 32, 32)]]

NextPopupLife ==
    \/ \E p \in {"p1", "p2"}, layer_arranged \in BOOLEAN, track_ok \in BOOLEAN :
          /\ Running
          /\ popups[p].kind = "untracked"
          /\ new_popup(p, layer_arranged, track_ok)
    \/ \E p \in {"p1", "p2"}, pos \in NewPositioners, token \in {1},
          layer_arranged \in BOOLEAN :
          /\ Running
          /\ popups[p].kind = "xdg"
          /\ reposition_request(p, pos, token, layer_arranged)
    \/ \E p \in PopupSurfaces, output_found \in BOOLEAN :
          Running /\ popups_handle_commit(p, output_found, TRUE)
    \/ \E p \in {"p1", "p2"}, output \in {None} \cup {Some(o) : o \in monitors} :
          /\ Running
          /\ popups[p].kind = "xdg"
          /\ popup_destroyed(p, output)

SpecPopupLife == InitPopupLife /\ [][NextPopupLife]_vars

\* C15: a commit of a tracked xdg popup that has not had its configure emits
\* it, after the surface state if an output was resolved, and every later commit
\* of that popup emits nothing; commits of input-method popups and of untracked
\* surfaces emit nothing.
C15_PopupConfiguredOnFirstCommit ==
    [][/\ last'.op = "popups_handle_commit" =>
             LET p == last'.surface
             IN  IF popups[p].kind = "xdg" /\ ~popups[p].initial_configure_sent
                 THEN /\ last'.args.events \in {<<"surface_state", "configure">>,
                                                <<"configure">>}
                      /\ last'.args.surface_state_sent <=>
                            last'.args.events[1] = "surface_state"
                      /\ popups'[p].initial_configure_sent
                 ELSE /\ last'.args.events = <<>>
                      /\ last'.configures = <<>>
                      /\ UNCHANGED popups
       /\ \A p \in PopupSurfaces :
             (popups[p].initial_configure_sent /\ last'.op # "popup_destroyed")
             => popups'[p].initial_configure_sent]_vars

\* a second commit of a configured popup, answered with nothing
C15_Witness ==
    /\ last.op = "popups_handle_commit"
    /\ popups[last.surface].kind = "xdg"
    /\ popups[last.surface].initial_configure_sent
    /\ last.args.events = <<>>

\* the request got to the focus decision: the input method does not hold the
\* keyboard and the popup has a root
ReachedFocusDecision(call) ==
    /\ call.op = "grab"
    /\ ~ime_keyboard_grabbed
    /\ call.args.root # None

\* the request was dismissed at the focus decision: the popup is dismissed, the
\* tracker is not asked, the seat and the popup-grab state stay as they were
DismissedStep(call) ==
    /\ call.args.outcome = "dismissed"
    /\ call.args.dismissed
    /\ call.args.tracker = None
    /\ UNCHANGED seat_vars

\* C16: a grab request while the input method holds the keyboard grab is
\* denied without dismissing the popup and without asking the tracker; the
\* keyboard focus, both seat grabs and the popup-grab state stay as they were.
C16_ImeGrabDeniesSilently ==
    [][(last'.op = "grab" /\ ime_keyboard_grabbed)
       => /\ last'.args.outcome = "ime_ignored"
          /\ ~last'.args.dismissed
          /\ ~last'.args.ungrabbed
          /\ last'.args.tracker = None
          /\ UNCHANGED <<keyboard_focus, keyboard_grab, pointer_grab, popup_grab>>]_vars

\* the popup of the focused window asked while the input method held the
\* keyboard, with nothing else in its way
C16_Witness ==
    /\ last.op = "grab"
    /\ last.args.outcome = "ime_ignored"
    /\ ime_keyboard_grabbed
    /\ ~locked
    /\ ~screenshot_open
    /\ popups[last.surface].root = layout_focus
    /\ layout_focus # None

\* C17: unlocked, screenshot UI closed, an active output, the root on no layer:
\* the request goes on to the tracker only if no Overlay surface is focusable,
\* the monitor renders above the Top layer or no Top surface is focusable, and
\* the root is the focused window's surface; otherwise it is dismissed and
\* nothing is installed.
C17_WindowPopupNeedsLayoutFocus ==
    [][(/\ ReachedFocusDecision(last')
        /\ ~locked
        /\ ~screenshot_open
        /\ active_output # None
        /\ layer_of_root[last'.args.root[1]] = None)
       => IF /\ ~overlay_focusable
             /\ (render_above_top \/ ~top_focusable)
             /\ last'.args.root = layout_focus
          THEN ~last'.args.dismissed /\ last'.args.tracker # None
          ELSE DismissedStep(last')]_vars

\* the focused window's popup got its grab over a focusable Top surface,
\* the monitor rendering above the Top layer
C17_Witness ==
    /\ last.op = "grab"
    /\ last.args.outcome = "granted"
    /\ ~locked
    /\ ~screenshot_open
    /\ top_focusable
    /\ render_above_top
    /\ last.args.root = layout_focus

\* C18: unlocked, screenshot UI closed, an active output, the root a layer
\* surface of that output: the request goes on to the tracker iff the layer is
\* Overlay or Top, whatever the layout focus and the other layer surfaces are;
\* on Bottom or Background it is dismissed and nothing is installed.
C18_LayerPopupNeedsUpperLayer ==
    [][(/\ ReachedFocusDecision(last')
        /\ ~locked
        /\ ~screenshot_open
        /\ active_output # None
        /\ layer_of_root[last'.args.root[1]] # None)
       => IF layer_of_root[last'.args.root[1]][1] \in {"Overlay", "Top"}
          THEN ~last'.args.dismissed /\ last'.args.tracker # None
          ELSE DismissedStep(last')]_vars

\* a Top layer surface's popup got its grab although an Overlay surface is
\* focusable and a window has the layout focus
C18_Witness ==
    /\ last.op = "grab"
    /\ last.args.outcome = "granted"
    /\ ~locked
    /\ ~screenshot_open
    /\ last.args.root = Some("l1")
    /\ layer_of_root["l1"] = Some("Top")
    /\ overlay_focusable
    /\ layout_focus = Some("s1")

\* C19: at the focus decision the lock comes first, then the screenshot UI,
\* then the active output: locked, the lock rule alone decides, the screenshot
\* UI open or not; unlocked with the screenshot UI open, and unlocked with it
\* closed and no active output, every request is dismissed; a dismissed request
\* asks no tracker and leaves the seat and the popup-grab state as they were.
C19_LockThenScreenshotThenOutput ==
    [][ReachedFocusDecision(last')
       => /\ locked =>
                IF last'.args.root = lock_focus
                THEN ~last'.args.dismissed /\ last'.args.tracker # None
                ELSE DismissedStep(last')
          /\ (~locked /\ screenshot_open) => DismissedStep(last')
          /\ (~locked /\ ~screenshot_open /\ active_output = None) => DismissedStep(last')
          /\ last'.args.dismissed => DismissedStep(last')]_vars

\* locked with the screenshot UI open, the lock focus's popup got its grab
C19_Witness ==
    /\ last.op = "grab"
    /\ last.args.outcome = "granted"
    /\ locked
    /\ screenshot_open
    /\ last.args.root = lock_focus

\* the device held a grab that the request's serial does not match
HeldAtOtherSerial(device_grab, serial) ==
    device_grab # None /\ device_grab[1].serial # serial

\* C20: a request that obtained a session whose previous serial is the serial
\* of the seat's live keyboard or pointer grab is granted although its own
\* serial does not match that grab; the grant sets the keyboard focus to the
\* session's popup, replaces both seat grabs by the session's at the request's
\* serial and records the root and the session as the popup-grab state.
C20_HandOffThroughPreviousSerial ==
    [][(/\ ReachedSerialCheck(last')
        /\ last'.args.tracker[1].previous_serial # None
        /\ \/ HeldAtOtherSerial(keyboard_grab, last'.args.serial)
           \/ HeldAtOtherSerial(pointer_grab, last'.args.serial)
        /\ SerialFresh(keyboard_grab, last'.args.serial,
                       last'.args.tracker[1].previous_serial)
        /\ SerialFresh(pointer_grab, last'.args.serial,
                       last'.args.tracker[1].previous_serial))
       => LET session == PopupGrab(last'.args.root[1], last'.surface, last'.args.serial,
                                   last'.args.tracker[1].previous_serial)
          IN  /\ last'.args.outcome = "granted"
              /\ keyboard_focus' = Some(last'.surface)
              /\ keyboard_grab' = Some([session |-> session, serial |-> last'.args.serial])
              /\ pointer_grab' = Some([session |-> session, serial |-> last'.args.serial])
              /\ popup_grab' = Some([root |-> last'.args.root[1], grab |-> session])]_vars

\* a session took over from an earlier popup session: both devices were
\* grabbed at its previous serial, not at the request's
C20_Witness ==
    /\ last.op = "grab"
    /\ last.args.outcome = "granted"
    /\ last.args.tracker[1].previous_serial # None
    /\ last.args.tracker[1].previous_serial[1] # last.args.serial
    /\ last.args.replaced[1][1] # None
    /\ last.args.replaced[1][1][1].session.popup \in PopupSurfaces
    /\ last.args.replaced[1][1][1].serial = last.args.tracker[1].previous_serial[1]
    /\ last.args.replaced[1][2] # None
    /\ last.args.replaced[1][2][1].serial = last.args.tracker[1].previous_serial[1]
    /\ popup_grab[1].grab.serial = last.args.serial

(***************************************************************************)
(* Fullscreen transitions of unmapped toplevels while outputs come and go. *)
(***************************************************************************)

\* the outputs are connected or disconnected: the layout's monitors, its active
\* output and output_by_name change together
outputs_changed(t) ==
    /\ t.monitors # monitors
    /\ monitors' = t.monitors
    /\ active_output' = t.active_output
    /\ output_by_name' = t.output_by_name
    /\ last' = Call("outputs_changed", "none", NoArgs, <<>>)
    /\ UNCHANGED <<toplevel_vars, config, popups, focus_vars, seat_vars, history_vars,
                   panicked>>

InitHotplug ==
    /\ InitToplevels
    /\ InitPopups
    /\ InitFocus
    /\ InitSeat
    /\ InitObservation
    /\ InitTopology(Topologies, Configs)

\* the outputs change only while no window is mapped: what the layout engine
\* does with its windows when the last output goes is its own business
NextHotplug ==
    \/ \E s \in Surfaces, role \in ToplevelRoles :
          Running /\ ~toplevel[s].alive /\ new_toplevel(s, role)
    \/ \E s \in Surfaces, o \in Outputs : Running /\ map_window(s, o)
    \/ \E s \in unmapped_windows : Running /\ send_initial_configure_if_needed(s)
    \/ \E s \in Surfaces, cap \in BOOLEAN, wl_output \in WlOutputs :
          Running /\ toplevel[s].alive /\ fullscreen_request(s, cap, wl_output)
    \/ \E s \in Surfaces : Running /\ toplevel[s].alive /\ unfullscreen_request(s)
    \/ \E s \in Surfaces : Running /\ toplevel[s].alive /\ toplevel_destroyed(s)
    \/ \E t \in Topologies :
          /\ Running
          /\ \A s \in Surfaces : find_window_and_output(s) = None
          /\ outputs_changed(t)

SpecHotplug == InitHotplug /\ [][NextHotplug]_vars

\* C23 as claimed: unfullscreen_request emits no configure; for a mapped
\* toplevel it clears fullscreen in the layout engine; for an unmapped toplevel
\* it clears the pending Fullscreen flag and, the target workspace being the
\* rule-named output's active workspace or else the layout's active workspace,
\* sets the pending size to that workspace's new-window size for the resolved
\* default width; so an unfullscreen_request that follows a fullscreen_request
\* on an unmapped toplevel leaves the pending Fullscreen flag clear.
C23_UnfullscreenClearsFullscreen ==
    [][last'.op = "unfullscreen_request" =>
          LET s == last'.surface
              rules == resolve_window_rules(config.window_rules, toplevel[s].role)
              ws == IF rule_output(rules) # None THEN rule_output(rules)
                    ELSE active_workspace
          IN  /\ last'.configures = <<>>
              /\ find_window_and_output(s) # None =>
                    /\ layout_windows'[s] # None
                    /\ ~layout_windows'[s][1].fullscreen
              /\ (find_window_and_output(s) = None /\ s \in unmapped_windows) =>
                    /\ ~toplevel'[s].pending.fullscreen
                    /\ ws # None =>
                          toplevel'[s].pending.size =
                              Some(new_window_size(ws[1], rules.default_width))]_vars

====
